---------------------------- MODULE Spec2Model ----------------------------
(***************************************************************************)
(* iRedAPD 5.9.1: the plugin dispatcher (libs/sql/modeler.py), the         *)
(* mailing-list access-policy plugin (plugins/ldap_maillist_access_        *)
(* policy.py) and the sender/login mismatch plugin (plugins/               *)
(* reject_sender_login_mismatch.py).                                       *)
(*                                                                         *)
(* Strings whose structure the code inspects (addresses, domain names,     *)
(* allow-list entries) are sequences of one-character strings, so that     *)
(* split, startswith, endswith and lstrip are computed as Python computes  *)
(* them.  An SMTP action is a sequence of words: its first word is the     *)
(* Postfix action, what `+ ' (...)'` appends is a further word.            *)
(***************************************************************************)
EXTENDS Naturals, Sequences, FiniteSets, TLC

VARIABLES
    \* ---- Modeler.handle_data ----
    plugins,            \* the `plugins` argument: the ordered plugin chain
    protocol_state,     \* smtp_session_data['protocol_state'], as received
    conns,              \* self.conns: which optional pools are configured
    handles,            \* the per-request connections of this call
    pc,                 \* position of handle_data: "idle", "start", "loop", "done"
    idx,                \* position of the `for plugin in plugins` loop
    invoked,            \* the plugins handed to utils.apply_plugin, in order
    action,             \* the value handle_data returned
    \* ---- a plugin's restriction(), called on its own ----
    kwargs,             \* the keyword arguments of restriction()
    rpc,                \* position of restriction(): "idle", "call", "done"
    result,             \* what restriction() produced
    \* ---- reject_sender_login_mismatch ----
    settings,           \* the settings module, as the plugin reads it
    env                 \* what DNS and the mlmmjadmin API answer when asked

vars == <<plugins, protocol_state, conns, handles, pc, idx, invoked, action,
          kwargs, rpc, result, settings, env>>

modelerVars == <<plugins, protocol_state, conns, handles, pc, idx, invoked, action>>
maillistVars == <<kwargs, rpc, result>>
loginVars == <<settings, env>>

-----------------------------------------------------------------------------
(* Bounds *)

\* longest plugin chain handed to handle_data
MaxPlugins == 3

-----------------------------------------------------------------------------
(* libs/__init__.py *)

\* SMTP_ACTIONS: the actions the two modules use, by key.
SMTP_ACTIONS ==
    [default               |-> <<"DUNNO">>,
     reject                |-> <<"REJECT">>,
     reject_not_authorized |-> <<"REJECT", "Not authorized">>,
     reject_forged_sender  |-> <<"REJECT", "SMTP AUTH is required for users under this sender domain">>,
     reject_sender_login_mismatch |->
         <<"REJECT", "Sender is not same as SMTP authenticate username">>]

\* str.startswith on an action, at word granularity
StartsWith(a, word) == Len(a) >= 1 /\ a[1] = word

-----------------------------------------------------------------------------
(* Modeler.handle_data *)

\* What a plugin's restriction() does when called.
Returns(a) == [kind |-> "return", value |-> a]
Raises == [kind |-> "raise", value |-> <<>>]

PluginOutcomes ==
    { Returns(SMTP_ACTIONS.default),
      Returns(SMTP_ACTIONS.default \o <<"(no restriction)">>),
      Returns(SMTP_ACTIONS.reject_not_authorized),
      Raises }

\* A plugin module: its SMTP_PROTOCOL_STATE attribute (hasState = FALSE when
\* the module declares none) and its restriction().
Plugins ==
    [hasState : {TRUE}, SMTP_PROTOCOL_STATE : {{"RCPT"}, {"END-OF-MESSAGE"}},
     restriction : PluginOutcomes]
    \cup
    [hasState : {FALSE}, SMTP_PROTOCOL_STATE : {{}}, restriction : PluginOutcomes]

RECURSIVE SeqsUpTo(_, _)
SeqsUpTo(S, n) ==
    IF n = 0 THEN {<<>>}
    ELSE LET shorter == SeqsUpTo(S, n - 1)
         IN  shorter \cup {Append(s, x) : s \in {t \in shorter : Len(t) = n - 1}, x \in S}

\* str.upper() on the protocol states the MTA sends
Upper(s) ==
    CASE s = "rcpt" -> "RCPT"
      [] s = "end-of-message" -> "END-OF-MESSAGE"
      [] OTHER -> s

ProtocolStates == {"RCPT", "rcpt", "end-of-message"}

\* apply_plugin without its try/except: the failure reaches the MTA as a reject
apply_plugin_unguarded(plugin) ==
    IF plugin.restriction.kind = "raise"
    THEN <<"REJECT", "plugin error">>
    ELSE plugin.restriction.value

\* utils.apply_plugin: calls plugin.restriction(**kwargs); an exception is
\* logged and the default action returned.
apply_plugin(plugin) ==
    IF plugin.restriction.kind = "raise"
    THEN SMTP_ACTIONS.default
    ELSE plugin.restriction.value

\* a plugin declaring no state taken to apply to every state
target_protocol_state_any(plugin) ==
    IF plugin.hasState THEN plugin.SMTP_PROTOCOL_STATE ELSE {"RCPT", "END-OF-MESSAGE"}

\* try: plugin.SMTP_PROTOCOL_STATE / except: ['RCPT']
target_protocol_state(plugin) ==
    IF plugin.hasState THEN plugin.SMTP_PROTOCOL_STATE ELSE {"RCPT"}

\* `protocol_state not in target_protocol_state`
SkipPlugin(plugin) == Upper(protocol_state) \notin target_protocol_state(plugin)

\* `action != SMTP_ACTIONS['default']` instead of the prefix test
EndsLoop_exact(a) == a # SMTP_ACTIONS.default

\* `not action.startswith('DUNNO')`
EndsLoop(a) == ~StartsWith(a, "DUNNO")

NoHandles == [conn_vmail |-> "none", conn_amavisd |-> "none", conn_iredapd |-> "none"]

\* Lines 25-33: connect() on the vmail pool and on each configured pool.
Connect ==
    [conn_vmail   |-> "open",
     conn_amavisd |-> IF conns.conn_amavisd THEN "open" ELSE "none",
     conn_iredapd |-> IF conns.conn_iredapd THEN "open" ELSE "none"]

\* Lines 71-78: conn_vmail.close(); conn_iredapd.close() raises on None, and
\* the bare except then skips the close of conn_amavisd.
CloseConnections(h) ==
    IF h.conn_iredapd = "none"
    THEN [h EXCEPT !.conn_vmail = "closed"]
    ELSE [conn_vmail   |-> "closed",
          conn_iredapd |-> "closed",
          conn_amavisd |-> IF h.conn_amavisd = "open" THEN "closed" ELSE h.conn_amavisd]

\* Lines 16-49: no plugins -> return at once; else take the connections.
Begin ==
    /\ pc = "start"
    /\ IF plugins = <<>>
       THEN /\ action' = SMTP_ACTIONS.default \o <<"No enabled plugins">>
            /\ pc' = "done"
            /\ UNCHANGED handles
       ELSE /\ handles' = Connect
            /\ pc' = "loop"
            /\ UNCHANGED action
    /\ UNCHANGED <<plugins, protocol_state, conns, idx, invoked>>
    /\ UNCHANGED maillistVars
    /\ UNCHANGED loginVars

\* Lines 54-63: a plugin that does not target this protocol state is skipped.
Skip ==
    /\ pc = "loop"
    /\ idx <= Len(plugins)
    /\ SkipPlugin(plugins[idx])
    /\ idx' = idx + 1
    /\ UNCHANGED <<plugins, protocol_state, conns, handles, pc, invoked, action>>
    /\ UNCHANGED maillistVars
    /\ UNCHANGED loginVars

\* Lines 65-68: apply the plugin; anything but DUNNO is returned at once.
Apply ==
    /\ pc = "loop"
    /\ idx <= Len(plugins)
    /\ ~SkipPlugin(plugins[idx])
    /\ invoked' = Append(invoked, idx)
    /\ LET a == apply_plugin(plugins[idx])
       IN  IF EndsLoop(a)
           THEN /\ action' = a
                /\ pc' = "done"
                /\ UNCHANGED idx
           ELSE /\ idx' = idx + 1
                /\ UNCHANGED <<action, pc>>
    /\ UNCHANGED <<plugins, protocol_state, conns, handles>>
    /\ UNCHANGED maillistVars
    /\ UNCHANGED loginVars

\* Lines 70-80: the loop ran out; close the connections, return the default.
Finish ==
    /\ pc = "loop"
    /\ idx > Len(plugins)
    /\ handles' = CloseConnections(handles)
    /\ action' = SMTP_ACTIONS.default
    /\ pc' = "done"
    /\ UNCHANGED <<plugins, protocol_state, conns, idx, invoked>>
    /\ UNCHANGED maillistVars
    /\ UNCHANGED loginVars

MaillistIdle ==
    /\ kwargs = <<>>
    /\ rpc = "idle"
    /\ result = <<>>

\* the login-mismatch plugin is not part of the run
LoginIdle ==
    /\ settings = <<>>
    /\ env = <<>>

InitModeler ==
    /\ plugins \in SeqsUpTo(Plugins, MaxPlugins)
    /\ protocol_state \in ProtocolStates
    /\ conns \in [conn_amavisd : BOOLEAN, conn_iredapd : BOOLEAN]
    /\ handles = NoHandles
    /\ pc = "start"
    /\ idx = 1
    /\ invoked = <<>>
    /\ action = <<>>
    /\ MaillistIdle
    /\ LoginIdle

NextModeler == Begin \/ Skip \/ Apply \/ Finish

SpecModeler == InitModeler /\ [][NextModeler]_vars

-----------------------------------------------------------------------------
(* Python strings and lists *)

\* `x in list`
In(x, list) == \E i \in 1..Len(list) : list[i] = x

\* str.startswith / str.endswith
startswith(s, prefix) ==
    Len(s) >= Len(prefix) /\ SubSeq(s, 1, Len(prefix)) = prefix

endswith(s, suffix) ==
    Len(s) >= Len(suffix) /\ SubSeq(s, Len(s) - Len(suffix) + 1, Len(s)) = suffix

\* str.split(sep) for a one-character separator: ''.split('.') is ['']
RECURSIVE split(_, _)
split(s, sep) ==
    IF \A i \in 1..Len(s) : s[i] # sep THEN <<s>>
    ELSE LET i == CHOOSE j \in 1..Len(s) :
                      s[j] = sep /\ \A k \in 1..(j - 1) : s[k] # sep
         IN  <<SubSeq(s, 1, i - 1)>> \o split(SubSeq(s, i + 1, Len(s)), sep)

\* sep.join(parts)
RECURSIVE join(_, _)
join(sep, parts) ==
    IF parts = <<>> THEN <<>>
    ELSE IF Len(parts) = 1 THEN parts[1]
    ELSE parts[1] \o <<sep>> \o join(sep, Tail(parts))

\* str.lstrip(ch)
RECURSIVE lstrip(_, _)
lstrip(s, ch) == IF s # <<>> /\ s[1] = ch THEN lstrip(Tail(s), ch) ELSE s

\* list.remove(x): drops the first element equal to x
RECURSIVE remove(_, _)
remove(list, x) ==
    IF list = <<>> THEN <<>>
    ELSE IF list[1] = x THEN Tail(list)
    ELSE <<list[1]>> \o remove(Tail(list), x)

\* [s for s in list if not s.startswith(prefix)]
RECURSIVE without_prefix(_, _)
without_prefix(list, prefix) ==
    IF list = <<>> THEN <<>>
    ELSE (IF startswith(list[1], prefix) THEN <<>> ELSE <<list[1]>>)
         \o without_prefix(Tail(list), prefix)

\* the list of the values a set-valued comprehension yields, in some order
RECURSIVE SetToSeq(_)
SetToSeq(S) ==
    IF S = {} THEN <<>>
    ELSE LET x == CHOOSE y \in S : TRUE IN <<x>> \o SetToSeq(S \ {x})

\* utils.is_email: local-part@domain, one '@', not a wildcard or dotted entry
is_email(s) ==
    /\ \E i \in 2..(Len(s) - 1) :
          s[i] = "@" /\ \A j \in 1..Len(s) : (s[j] = "@" => j = i)
    /\ s[1] \notin {"*", "."}

\* the domain part of an address, as the protocol layer derives it
DomainOf(addr) ==
    IF \E i \in 1..Len(addr) : addr[i] = "@"
    THEN LET i == CHOOSE j \in 1..Len(addr) : addr[j] = "@"
         IN  SubSeq(addr, i + 1, Len(addr))
    ELSE <<>>

Addr(local, domain) == <<local, "@">> \o domain

-----------------------------------------------------------------------------
(* The directory behind conn_vmail *)

\* A value as python-ldap hands it over (bytes), and utils.bytes2str, which
\* decodes every value of an entry.  A bytes value never equals a str.
Bytes(s) == <<"b'">> \o s
bytes2str(v) == Tail(v)

RECURSIVE BytesList(_)
BytesList(list) ==
    IF list = <<>> THEN <<>> ELSE <<Bytes(list[1])>> \o BytesList(Tail(list))

RECURSIVE bytes2strList(_)
bytes2strList(list) ==
    IF list = <<>> THEN <<>> ELSE <<bytes2str(list[1])>> \o bytes2strList(Tail(list))

\* domain names and addresses of the model
Dom_e  == <<"e", ".", "c">>                 \* the list's domain, e.c
Dom_s  == <<"s", ".", "e", ".", "c">>       \* a sub-domain of it, s.e.c
Dom_ne == <<"n", "e", ".", "c">>            \* ne.c: ends with e.c, no sub-domain
Dom_a  == <<"a", ".", "c">>                 \* a.c: alias domain of e.c in DirFull

ListAddr == Addr("l", Dom_e)

\* a mail user under ou=Users,domainName=<domain>
User(local, domain, aliases, groups, status) ==
    [mail |-> Addr(local, domain), domain |-> domain, shadowAddress |-> aliases,
     memberOfGroup |-> groups, accountStatus |-> status,
     enabledService |-> {"mail", "shadowaddress"}]

\* u@e.c, alias v@e.c, member of the list; w@e.c, no alias, no membership;
\* e.c has the alias domain a.c
DirFull ==
    [users   |-> { User("u", Dom_e, <<Addr("v", Dom_e)>>, <<ListAddr>>, "active"),
                   User("w", Dom_e, <<>>, <<>>, "active") },
     domains |-> { [domainName |-> Dom_e, domainAliasName |-> <<Dom_a>>,
                    enabledService |-> {"mail", "domainalias"}] },
     up      |-> TRUE]

\* the same users, u a disabled member of the list, and no alias domain
DirBare ==
    [users   |-> { User("u", Dom_e, <<Addr("v", Dom_e)>>, <<ListAddr>>, "disabled"),
                   User("w", Dom_e, <<>>, <<>>, "active") },
     domains |-> { [domainName |-> Dom_e, domainAliasName |-> <<>>,
                    enabledService |-> {"mail"}] },
     up      |-> TRUE]

\* a directory whose search_s raises
DirDown == [DirFull EXCEPT !.up = FALSE]

Directories == {DirFull, DirBare, DirDown}

\* conn_utils.get_primary_and_alias_domains: domainName and domainAliasName
\* of the domain entry that names the domain
get_primary_and_alias_domains(conn, domain) ==
    LET hit == {d \in conn.domains :
                    d.domainName = domain \/ In(domain, d.domainAliasName)}
    IN  IF hit = {} THEN <<>>
        ELSE LET d == CHOOSE x \in hit : TRUE
             IN  <<d.domainName>> \o d.domainAliasName

\* Lines 130-143: active users under the recipient domain whose
\* memberOfGroup names the list; attributes mail, shadowAddress
search_members(conn, recipient, recipient_domain) ==
    { [mail |-> <<Bytes(u.mail)>>, shadowAddress |-> BytesList(u.shadowAddress)] :
        u \in { x \in conn.users : /\ x.domain = recipient_domain
                                   /\ x.accountStatus = "active"
                                   /\ In(recipient, x.memberOfGroup) } }

\* Lines 159-172: users whose memberOfGroup names the list, and the list's
\* own entry; attributes mail, shadowAddress, listAllowedUser
search_members_and_moderators(conn, recipient, recipient_domain, recipient_ldif) ==
    { [mail |-> <<Bytes(u.mail)>>, shadowAddress |-> BytesList(u.shadowAddress),
       listAllowedUser |-> <<>>] :
        u \in { x \in conn.users : /\ x.domain = recipient_domain
                                   /\ In(recipient, x.memberOfGroup) } }
    \cup
    (IF In("mailList", recipient_ldif.objectClass) /\ DomainOf(recipient) = recipient_domain
     THEN { [mail |-> <<Bytes(recipient)>>, shadowAddress |-> <<>>,
             listAllowedUser |-> BytesList(recipient_ldif.listAllowedUser)] }
     ELSE {})

\* Lines 230-243: users with shadowaddress enabled, directly under
\* ou=Users of the recipient domain, whose mail or shadowAddress is one of
\* _users; attributes mail, shadowAddress
search_user_aliases(conn, recipient_domain, users) ==
    { [mail |-> <<Bytes(u.mail)>>, shadowAddress |-> BytesList(u.shadowAddress)] :
        u \in { x \in conn.users :
                  /\ x.domain = recipient_domain
                  /\ "shadowaddress" \in x.enabledService
                  /\ \E i \in 1..Len(users) :
                        x.mail = users[i] \/ In(users[i], x.shadowAddress) } }

\* Lines 254-267: domains with domainalias enabled whose domainName or
\* domainAliasName is one of _domains; attributes domainName, domainAliasName
search_domain_aliases(conn, domains) ==
    { [domainName |-> <<Bytes(d.domainName)>>,
       domainAliasName |-> BytesList(d.domainAliasName)] :
        d \in { x \in conn.domains :
                  /\ "domainalias" \in x.enabledService
                  /\ \E i \in 1..Len(domains) :
                        x.domainName = domains[i] \/ In(domains[i], x.domainAliasName) } }

-----------------------------------------------------------------------------
(* plugins/ldap_maillist_access_policy.py: restriction() *)

\* libs/__init__.py: the access policy names
MAILLIST_POLICY_PUBLIC == "public"
MAILLIST_POLICY_DOMAIN == "domain"
MAILLIST_POLICY_SUBDOMAIN == "subdomain"
MAILLIST_POLICY_MEMBERSONLY == "membersonly"
MAILLIST_POLICY_MODERATORS == "moderatorsonly"
MAILLIST_POLICY_MEMBERSANDMODERATORSONLY == "membersandmoderatorsonly"

\* str.lower() on the accessPolicy values of the model
lower(p) ==
    CASE p = "PUBLIC" -> "public"
      [] p = "Domain" -> "domain"
      [] OTHER -> p

\* restriction() returned `value`, or an exception left it; `queries` are
\* the directory queries issued on the way.
Return(value, queries) == [kind |-> "return", value |-> value, queries |-> queries]
Raise(queries) == [kind |-> "raise", value |-> <<>>, queries |-> queries]

\* `not recipient_ldif`: None when the recipient has no entry
NoLdif ==
    [exists |-> FALSE, objectClass |-> <<>>, accountStatus |-> <<>>,
     accessPolicy |-> <<>>, enabledService |-> <<>>, listModerator |-> <<>>,
     listOwner |-> <<>>, listAllowedUser |-> <<>>]

\* only an explicit 'disabled' counts, a missing accountStatus passes
list_disabled_explicit(recipient_ldif) == recipient_ldif.accountStatus = <<"disabled">>

\* Line 45: recipient_ldif.get('accountStatus', []) != ['active']
list_disabled(recipient_ldif) == recipient_ldif.accountStatus # <<"active">>

\* the policy taken as stored, without .lower()
get_policy_nolower(recipient_ldif) ==
    IF recipient_ldif.accessPolicy = <<>>
    THEN MAILLIST_POLICY_PUBLIC
    ELSE recipient_ldif.accessPolicy[1]

\* Line 50: recipient_ldif.get('accessPolicy', [PUBLIC])[0].lower()
get_policy(recipient_ldif) ==
    IF recipient_ldif.accessPolicy = <<>>
    THEN lower(MAILLIST_POLICY_PUBLIC)
    ELSE lower(recipient_ldif.accessPolicy[1])

\* Lines 61-62: the list is served by mlmmj and the policy is one mlmmj enforces
mlmmj_handles(recipient_ldif, policy) ==
    /\ In("mlmmj", recipient_ldif.enabledService)
    /\ policy \in {MAILLIST_POLICY_MEMBERSONLY, MAILLIST_POLICY_MODERATORS}

\* Lines 96-100: the loop pops the head of the list it iterates over, so it
\* stops once its index reaches the shrunken length.
RECURSIVE possible_sender_domains_loop(_, _, _)
possible_sender_domains_loop(parts, i, acc) ==
    IF i >= Len(parts) THEN acc
    ELSE possible_sender_domains_loop(
             Tail(parts), i + 1, Append(acc, <<".">> \o join(".", parts)))

possible_sender_domains(sender_domain) ==
    possible_sender_domains_loop(split(sender_domain, "."), 0, <<sender_domain>>)

\* Lines 87-104: the action for an explicitly allowed sender, <<>> when the
\* allow-list does not name the sender.
explicitly_allowed(sender, sender_domain, allowed) ==
    IF In(sender, allowed)
    THEN SMTP_ACTIONS.default \o <<"(Sender is allowed explicitly)">>
    ELSE IF In(sender_domain, allowed) \/ In(<<"*", "@">> \o sender_domain, allowed)
    THEN SMTP_ACTIONS.default \o <<"(Sender domain is allowed explicitly)">>
    ELSE IF \E i \in 1..Len(possible_sender_domains(sender_domain)) :
                In(possible_sender_domains(sender_domain)[i], allowed)
    THEN SMTP_ACTIONS.default \o <<"(Sender domain or its sub-domain is explicitly allowed)">>
    ELSE <<>>

\* the suffix test without the dot: 'notexample.com' passes for 'example.com'
subdomain_match_nodot(sender_domain, d) == endswith(sender_domain, d)

\* Line 122: sender_domain == d or sender_domain.endswith('.' + d)
subdomain_match(sender_domain, d) ==
    sender_domain = d \/ endswith(sender_domain, <<".">> \o d)

\* Lines 112-126: policies domain and subdomain
policy_domain(policy, sender_domain, valid_rcpt_domains, queries) ==
    IF policy = MAILLIST_POLICY_DOMAIN
    THEN IF In(sender_domain, valid_rcpt_domains)
         THEN Return(SMTP_ACTIONS.default, queries)
         ELSE Return(SMTP_ACTIONS.reject_not_authorized, queries)
    ELSE IF \E i \in 1..Len(valid_rcpt_domains) :
                subdomain_match(sender_domain, valid_rcpt_domains[i])
         THEN Return(SMTP_ACTIONS.default, queries)
         ELSE Return(SMTP_ACTIONS.reject_not_authorized, queries)

\* for (_dn, _ldif) in qr: _ldif = bytes2str(_ldif); for k in attrs:
\*     allowed_senders += _ldif.get(k, [])
RECURSIVE collect(_, _, _)
collect(entries, attrs, acc) ==
    IF entries = <<>> THEN acc
    ELSE LET e == entries[1]
             RECURSIVE values(_)
             values(ks) == IF ks = <<>> THEN <<>>
                           ELSE bytes2strList(e[ks[1]]) \o values(Tail(ks))
         IN  collect(Tail(entries), attrs, acc \o values(attrs))

\* membersonly collecting `mail` only, alias addresses forgotten
policy_membersonly_mailonly(conn, sender, recipient, recipient_domain, queries) ==
    LET q == Append(queries, "members")
    IN  IF ~conn.up THEN Raise(q)
        ELSE LET qr == search_members(conn, recipient, recipient_domain)
                 allowed_senders == collect(SetToSeq(qr), <<"mail">>, <<>>)
             IN  IF In(sender, allowed_senders)
                 THEN Return(SMTP_ACTIONS.default, q)
                 ELSE Return(SMTP_ACTIONS.reject_not_authorized, q)

\* Lines 128-155: policy membersonly
policy_membersonly(conn, sender, recipient, recipient_domain, queries) ==
    LET q == Append(queries, "members")
    IN  IF ~conn.up THEN Raise(q)
        ELSE LET qr == search_members(conn, recipient, recipient_domain)
                 allowed_senders ==
                     collect(SetToSeq(qr), <<"mail", "shadowAddress">>, <<>>)
             IN  IF In(sender, allowed_senders)
                 THEN Return(SMTP_ACTIONS.default, q)
                 ELSE Return(SMTP_ACTIONS.reject_not_authorized, q)

\* the members/moderators branch rejecting when its query fails
policy_membersandmoderators_failclosed(conn, sender, recipient, recipient_domain, recipient_ldif, queries) ==
    LET q == Append(queries, "members_and_moderators")
    IN  IF ~conn.up
        THEN Return(SMTP_ACTIONS.reject_not_authorized, q)
        ELSE LET qr == search_members_and_moderators(conn, recipient, recipient_domain, recipient_ldif)
                 allowed_senders == collect(SetToSeq(qr), <<"mail", "shadowAddress", "listAllowedUser">>, <<>>)
             IN  IF In(sender, allowed_senders) THEN Return(SMTP_ACTIONS.default, q)
                 ELSE Return(SMTP_ACTIONS.reject_not_authorized, q)

\* membersandmoderatorsonly deferring the mail when its query fails
policy_membersandmoderators_defer(conn, sender, recipient, recipient_domain, recipient_ldif, queries) ==
    LET q == Append(queries, "members_and_moderators")
    IN  IF ~conn.up
        THEN Return(<<"DEFER", "(Error while querying allowed senders)">>, q)
        ELSE LET qr == search_members_and_moderators(
                           conn, recipient, recipient_domain, recipient_ldif)
                 allowed_senders ==
                     collect(SetToSeq(qr),
                             <<"mail", "shadowAddress", "listAllowedUser">>, <<>>)
             IN  IF In(sender, allowed_senders)
                 THEN Return(SMTP_ACTIONS.default, q)
                 ELSE Return(SMTP_ACTIONS.reject_not_authorized, q)

\* Lines 157-189: policy membersandmoderatorsonly
policy_membersandmoderators(conn, sender, recipient, recipient_domain, recipient_ldif, queries) ==
    LET q == Append(queries, "members_and_moderators")
    IN  IF ~conn.up
        THEN Return(SMTP_ACTIONS.default \o <<"(Error while querying allowed senders)">>, q)
        ELSE LET qr == search_members_and_moderators(
                           conn, recipient, recipient_domain, recipient_ldif)
                 allowed_senders ==
                     collect(SetToSeq(qr),
                             <<"mail", "shadowAddress", "listAllowedUser">>, <<>>)
             IN  IF In(sender, allowed_senders)
                 THEN Return(SMTP_ACTIONS.default, q)
                 ELSE Return(SMTP_ACTIONS.reject_not_authorized, q)

\* Lines 207-221: `for _as in allowed_senders` with allowed_senders.remove(_as)
\* in its body: after a removal the next element slides under the index
\* and is never visited.
RECURSIVE partition_loop(_, _, _, _, _)
partition_loop(allowed_senders, i, users, domains, recipient_domain) ==
    IF i > Len(allowed_senders)
    THEN [allowed_senders |-> allowed_senders, users |-> users, domains |-> domains]
    ELSE LET as == allowed_senders[i]
         IN  IF is_email(as)
             THEN IF endswith(as, <<"@">> \o recipient_domain)
                  THEN partition_loop(remove(allowed_senders, as), i + 1,
                                      Append(users, as), domains, recipient_domain)
                  ELSE partition_loop(allowed_senders, i + 1,
                                      users, domains, recipient_domain)
             ELSE partition_loop(remove(allowed_senders, as), i + 1, users,
                                 Append(domains, IF startswith(as, <<".">>)
                                                 THEN lstrip(as, ".") ELSE as),
                                 recipient_domain)

\* Lines 270-278: the values of this query are not decoded; every value of
\* an entry is added once for each of its values found in _domains.
RECURSIVE expand_domains(_, _, _)
expand_domains(entries, domains, acc) ==
    IF entries = <<>> THEN acc
    ELSE LET all_domains == entries[1].domainName \o entries[1].domainAliasName
             RECURSIVE add(_, _)
             add(ds, a) == IF ds = <<>> THEN a
                           ELSE add(Tail(ds), IF In(ds[1], domains)
                                              THEN a \o all_domains ELSE a)
         IN  expand_domains(Tail(entries), domains, add(all_domains, acc))

\* Lines 191-284: policy moderatorsonly
policy_moderators(conn, sasl_username, sender, sender_domain, recipient_domain, explicitly_allowed_senders, queries) ==
    IF sasl_username = <<>>
    THEN Return(SMTP_ACTIONS.reject_not_authorized, queries)
    ELSE
    LET parts == partition_loop(without_prefix(explicitly_allowed_senders, <<"*", "@">>),
                                1, <<>>, <<>>, recipient_domain)
        q1 == IF parts.users # <<>> THEN Append(queries, "user_aliases") ELSE queries
        q2 == IF parts.domains # <<>> THEN Append(q1, "domain_aliases") ELSE q1
    IN  IF parts.users # <<>> /\ ~conn.up THEN Raise(q1)
        ELSE IF parts.domains # <<>> /\ ~conn.up THEN Raise(q2)
        ELSE
        LET with_users ==
                IF parts.users # <<>>
                THEN collect(SetToSeq(search_user_aliases(conn, recipient_domain, parts.users)),
                             <<"mail", "shadowAddress">>, parts.allowed_senders)
                ELSE parts.allowed_senders
            allowed_senders ==
                IF parts.domains # <<>>
                THEN expand_domains(SetToSeq(search_domain_aliases(conn, parts.domains)),
                                    parts.domains, with_users)
                ELSE with_users
        IN  IF In(sender, allowed_senders) \/ In(sender_domain, allowed_senders)
            THEN Return(SMTP_ACTIONS.default, q2)
            ELSE Return(SMTP_ACTIONS.reject_not_authorized, q2)

\* Lines 66-286: what follows the public and mlmmj shortcuts
restriction_by_policy(kw, policy) ==
    LET conn == kw.conn_vmail
        sender == kw.sender_without_ext
        sender_domain == kw.sender_domain
        recipient == kw.recipient_without_ext
        recipient_domain == kw.recipient_domain
        recipient_ldif == kw.recipient_ldif
        valid_rcpt_domains == get_primary_and_alias_domains(conn, recipient_domain)
        q == <<"primary_and_alias_domains">>
        explicitly_allowed_senders == recipient_ldif.listAllowedUser
        allowed == explicitly_allowed(sender, sender_domain, explicitly_allowed_senders)
    IN  IF In(sender, recipient_ldif.listModerator) THEN Return(SMTP_ACTIONS.default, q)
        ELSE IF In(sender, recipient_ldif.listOwner) THEN Return(SMTP_ACTIONS.default, q)
        ELSE IF allowed # <<>> THEN Return(allowed, q)
        ELSE IF policy \in {MAILLIST_POLICY_DOMAIN, MAILLIST_POLICY_SUBDOMAIN}
             THEN policy_domain(policy, sender_domain, valid_rcpt_domains, q)
        ELSE IF policy = MAILLIST_POLICY_MEMBERSONLY
             THEN policy_membersonly(conn, sender, recipient, recipient_domain, q)
        ELSE IF policy = MAILLIST_POLICY_MEMBERSANDMODERATORSONLY
             THEN policy_membersandmoderators(conn, sender, recipient, recipient_domain,
                                              recipient_ldif, q)
        ELSE IF policy = MAILLIST_POLICY_MODERATORS
             THEN policy_moderators(conn, kw.sasl_username, sender, sender_domain,
                                    recipient_domain, explicitly_allowed_senders, q)
        ELSE Return(SMTP_ACTIONS.default \o <<"(Unknown access policy, no restriction)">>, q)

\* Lines 26-286
restriction(kw) ==
    LET recipient_ldif == kw.recipient_ldif
        policy0 == get_policy(recipient_ldif)
        policy == IF policy0 = "allowedonly" THEN MAILLIST_POLICY_MODERATORS ELSE policy0
    IN  IF kw.sasl_username = kw.recipient_without_ext
        THEN Return(SMTP_ACTIONS.default \o <<"(sasl_username == recipient, not a mail list account)">>, <<>>)
        ELSE IF ~recipient_ldif.exists
        THEN Return(SMTP_ACTIONS.default \o <<"(Recipient is not a local account - no LDIF data)">>, <<>>)
        ELSE IF ~In("mailList", recipient_ldif.objectClass)
        THEN Return(SMTP_ACTIONS.default \o <<"(Recipient is not a mailing list account)">>, <<>>)
        ELSE IF list_disabled(recipient_ldif)
        THEN Return(SMTP_ACTIONS.reject, <<>>)
        ELSE IF policy0 = MAILLIST_POLICY_PUBLIC
        THEN Return(SMTP_ACTIONS.default \o <<"(Access policy: public, no restriction)">>, <<>>)
        ELSE IF mlmmj_handles(recipient_ldif, policy)
        THEN Return(SMTP_ACTIONS.default, <<>>)
        ELSE restriction_by_policy(kw, policy)

\* the plugin is called once for the transaction
Restriction ==
    /\ rpc = "call"
    /\ result' = restriction(kwargs)
    /\ rpc' = "done"
    /\ UNCHANGED kwargs
    /\ UNCHANGED modelerVars
    /\ UNCHANGED loginVars

\* longest listAllowedUser of a list entry
MaxAllowed == 2

\* listAllowedUser values: two local addresses, a dotted domain, a wildcard
AllowedEntries ==
    { Addr("u", Dom_e), Addr("w", Dom_e), <<".">> \o Dom_a, <<"*", "@">> \o Dom_ne }

AccessPolicies ==
    { <<>>, <<"public">>, <<"PUBLIC">>, <<"domain">>, <<"Domain">>, <<"subdomain">>,
      <<"membersonly">>, <<"moderatorsonly">>, <<"allowedonly">>,
      <<"membersandmoderatorsonly">>, <<"unknown">> }

\* the entries a recipient address can resolve to: none, a mail user, a list
RecipientLdifs ==
    { NoLdif,
      [NoLdif EXCEPT !.exists = TRUE, !.objectClass = <<"mailUser">>,
                     !.accountStatus = <<"active">>] }
    \cup
    [exists : {TRUE},
     objectClass : {<<"mailList">>},
     accountStatus : {<<>>, <<"active">>, <<"disabled">>},
     accessPolicy : AccessPolicies,
     enabledService : {<<"mail", "deliver">>, <<"mail", "mlmmj">>},
     listModerator : {<<>>, <<Addr("u", Dom_ne)>>},
     listOwner : {<<>>, <<Addr("u", Dom_a)>>},
     listAllowedUser : SeqsUpTo(AllowedEntries, MaxAllowed)]

Senders ==
    { Addr("u", Dom_e), Addr("v", Dom_e), Addr("u", Dom_s),
      Addr("u", Dom_ne), Addr("u", Dom_a) }

SaslUsernames == { <<>>, Addr("u", Dom_e), ListAddr }

ModelerIdle ==
    /\ plugins = <<>>
    /\ protocol_state = "RCPT"
    /\ conns = [conn_amavisd |-> FALSE, conn_iredapd |-> FALSE]
    /\ handles = NoHandles
    /\ pc = "idle"
    /\ idx = 1
    /\ invoked = <<>>
    /\ action = <<>>

InitMaillist ==
    /\ \E sender \in Senders, sasl \in SaslUsernames,
          ldif \in RecipientLdifs, dir \in Directories :
          kwargs = [sasl_username |-> sasl,
                    recipient_without_ext |-> ListAddr,
                    recipient_ldif |-> ldif,
                    conn_vmail |-> dir,
                    sender_without_ext |-> sender,
                    sender_domain |-> DomainOf(sender),
                    recipient_domain |-> DomainOf(ListAddr)]
    /\ rpc = "call"
    /\ result = <<>>
    /\ ModelerIdle
    /\ LoginIdle

NextMaillist == Restriction

SpecMaillist == InitMaillist /\ [][NextMaillist]_vars

-----------------------------------------------------------------------------
(* plugins/reject_sender_login_mismatch.py                                 *)
(*                                                                         *)
(* restriction() is a pure function of its keyword arguments, of the       *)
(* settings module and of what the account store, DNS and the mlmmjadmin   *)
(* API answer.  Addresses are character sequences, as above; an address is *)
(* either empty or of the form local@domain.                               *)

Dom_o == <<"o", ".", "c">>                  \* o.c: a domain not hosted here

\* str.split(sep, 1): at most one split, at the first separator
split_1(s, sep) ==
    IF \A i \in 1..Len(s) : s[i] # sep THEN <<s>>
    ELSE LET i == CHOOSE j \in 1..Len(s) :
                      s[j] = sep /\ \A k \in 1..(j - 1) : s[k] # sep
         IN  <<SubSeq(s, 1, i - 1), SubSeq(s, i + 1, Len(s))>>

\* ---- the account store ----
\* One mail user u@e.c with the per-user alias v@e.c, who is a member of the
\* list l@e.c and of the alias account s@e.c; m@e.c is a list run by mlmmj,
\* whose subscribers only mlmmjadmin knows; a.c is an alias domain of e.c.

LdapEntry(class, mail, shadow, groups, forwardings, services) ==
    [objectClass |-> class, mail |-> mail, shadowAddress |-> shadow,
     memberOfGroup |-> groups, mailForwardingAddress |-> forwardings,
     enabledService |-> services, accountStatus |-> "active"]

LoginLdap ==
    [backend |-> "ldap",
     domains |-> {Dom_e, Dom_a},
     entries |->
        {LdapEntry("mailUser", Addr("u", Dom_e), {Addr("v", Dom_e), Addr("u", Dom_a)},
                   {Addr("l", Dom_e)}, {}, {"mail"}),
         LdapEntry("mailList", Addr("l", Dom_e), {}, {}, {}, {"mail", "deliver"}),
         LdapEntry("mailAlias", Addr("s", Dom_e), {}, {}, {Addr("u", Dom_e)}, {"mail"}),
         LdapEntry("mailList", Addr("m", Dom_e), {}, {}, {}, {"mail", "mlmmj"})}]

Forwarding(address, forwarding, is_alias, is_list) ==
    [address |-> address, forwarding |-> forwarding,
     is_alias |-> is_alias, is_list |-> is_list, active |-> 1]

LoginSql ==
    [backend |-> "mysql",
     domains |-> {Dom_e, Dom_a},
     forwardings |->
        {Forwarding(Addr("u", Dom_e), Addr("u", Dom_e), 0, 0),
         Forwarding(Addr("v", Dom_e), Addr("u", Dom_e), 1, 0),
         Forwarding(Addr("l", Dom_e), Addr("u", Dom_e), 0, 1),
         Forwarding(Addr("s", Dom_e), Addr("u", Dom_e), 0, 1)},
     alias_domain |-> {[alias_domain |-> Dom_a, target_domain |-> Dom_e]},
     maillists |-> {[address |-> Addr("m", Dom_e), active |-> 1]}]

\* ---- what restriction() calls outside the plugin ----

\* utils.is_trusted_client: the client address is listed in MYNETWORKS
is_trusted_client(st, client_address) == In(client_address, st.MYNETWORKS)

\* is_local_domain(conn, domain, include_backupmx=False): the store hosts it
is_local_domain(conn, domain) == domain \in conn.domains

\* dnsspf.is_allowed_server_in_spf(sender_domain, ip): what DNS says
is_allowed_server_in_spf(ev, sender_domain, ip) == ev.spf_allowed

\* requests.get(...) then r.json() then _json['_success'], lines 366-369:
\* "raise" when the request fails, the body is not JSON or the key is
\* missing, else the value of the field
has_subscriber(ev) ==
    IF ~ev.response.sent THEN "raise"
    ELSE IF ~ev.response.is_json THEN "raise"
    ELSE IF "_success" \notin DOMAIN ev.response.json THEN "raise"
    ELSE IF ev.response.json["_success"] THEN "true" ELSE "false"

\* ---- restriction(), unauthenticated client: lines 149-196 ----

\* unauthenticated() taking a sender domain for local only on the word of
\* the store, not because it is the recipient domain
unauthenticated_lookup_only(kw, st, ev, sender, sender_name, sender_domain) ==
    IF is_trusted_client(st, kw.client_address)
    THEN Return(SMTP_ACTIONS.default, <<>>)
    ELSE IF ~st.CHECK_FORGED_SENDER
    THEN Return(SMTP_ACTIONS.default, <<>>)
    ELSE IF \/ In(sender, st.ALLOWED_FORGED_SENDERS)
            \/ In(sender_domain, st.ALLOWED_FORGED_SENDERS)
            \/ In(sender_name \o <<"@", "*">>, st.ALLOWED_FORGED_SENDERS)
    THEN Return(SMTP_ACTIONS.default, <<>>)
    ELSE LET q == <<"is_local_domain">>
         IN  IF is_local_domain(kw.conn_vmail, sender_domain)
             THEN IF st.CHECK_SPF_IF_LOGIN_MISMATCH
                  THEN IF is_allowed_server_in_spf(ev, sender_domain, kw.client_address)
                       THEN Return(SMTP_ACTIONS.default, q \o <<"spf">>)
                       ELSE Return(SMTP_ACTIONS.reject_forged_sender, q \o <<"spf">>)
                  ELSE Return(SMTP_ACTIONS.reject_forged_sender, q)
             ELSE Return(SMTP_ACTIONS.default, q)

\* unauthenticated() looking at the client address only once the sender
\* domain turned out to be local
unauthenticated_trusted_last(kw, st, ev, sender, sender_name, sender_domain) ==
    IF ~st.CHECK_FORGED_SENDER
    THEN Return(SMTP_ACTIONS.default, <<>>)
    ELSE IF \/ In(sender, st.ALLOWED_FORGED_SENDERS)
            \/ In(sender_domain, st.ALLOWED_FORGED_SENDERS)
            \/ In(sender_name \o <<"@", "*">>, st.ALLOWED_FORGED_SENDERS)
    THEN Return(SMTP_ACTIONS.default, <<>>)
    ELSE LET same == sender_domain = kw.recipient_domain
             q == IF same THEN <<>> ELSE <<"is_local_domain">>
         IN  IF same \/ is_local_domain(kw.conn_vmail, sender_domain)
             THEN IF is_trusted_client(st, kw.client_address)
                  THEN Return(SMTP_ACTIONS.default, q)
                  ELSE Return(SMTP_ACTIONS.reject_forged_sender, q)
             ELSE Return(SMTP_ACTIONS.default, q)

unauthenticated(kw, st, ev, sender, sender_name, sender_domain) ==
    IF is_trusted_client(st, kw.client_address)
    THEN Return(SMTP_ACTIONS.default, <<>>)
    ELSE IF ~st.CHECK_FORGED_SENDER
    THEN Return(SMTP_ACTIONS.default, <<>>)
    ELSE IF \/ In(sender, st.ALLOWED_FORGED_SENDERS)
            \/ In(sender_domain, st.ALLOWED_FORGED_SENDERS)
            \/ In(sender_name \o <<"@", "*">>, st.ALLOWED_FORGED_SENDERS)
    THEN Return(SMTP_ACTIONS.default, <<>>)
    ELSE LET same == sender_domain = kw.recipient_domain
             q == IF same THEN <<>> ELSE <<"is_local_domain">>
             _is_local_sender_domain ==
                 same \/ is_local_domain(kw.conn_vmail, sender_domain)
         IN  IF _is_local_sender_domain
             THEN IF st.CHECK_SPF_IF_LOGIN_MISMATCH
                  THEN IF is_allowed_server_in_spf(ev, sender_domain, kw.client_address)
                       THEN Return(SMTP_ACTIONS.default, q \o <<"spf">>)
                       ELSE Return(SMTP_ACTIONS.reject_forged_sender, q \o <<"spf">>)
                  ELSE Return(SMTP_ACTIONS.reject_forged_sender, q)
             ELSE Return(SMTP_ACTIONS.default, q)

\* ---- restriction(), authenticated client: lines 201-376 ----

\* the plain rejection in place of the mismatch rejection
action_reject_plain == SMTP_ACTIONS.reject

\* line 120
action_reject == SMTP_ACTIONS.reject_sender_login_mismatch

\* the allow-list check with '@domain' and '@.' granting any sender domain
allowed_senders_bypass_anydomain(allowed_senders, sasl_username, sasl_username_domain, sender_domain) ==
    \/ In(sasl_username, allowed_senders)
    \/ In(sasl_username_domain, allowed_senders)
    \/ In(<<"@">> \o sasl_username_domain, allowed_senders)
    \/ In(<<"@", ".">>, allowed_senders)

\* lines 214-228: TRUE when an entry of ALLOWED_LOGIN_MISMATCH_SENDERS makes
\* restriction() return DUNNO
allowed_senders_bypass(allowed_senders, sasl_username, sasl_username_domain, sender_domain) ==
    IF In(sasl_username, allowed_senders) THEN TRUE
    ELSE IF In(sasl_username_domain, allowed_senders) THEN TRUE
    ELSE IF \/ In(<<"@">> \o sasl_username_domain, allowed_senders)
            \/ In(<<"@", ".">>, allowed_senders)
    THEN sasl_username_domain = sender_domain
    ELSE FALSE

\* the three LDAP filters of lines 242-259, as predicates on an entry
filter_user_alias(e, sasl_username, sender) ==
    /\ e.objectClass = "mailUser"
    /\ e.mail = sasl_username
    /\ sender \in e.shadowAddress

filter_list_member(e, sasl_username, sender) ==
    /\ e.objectClass = "mailUser"
    /\ (e.mail = sasl_username \/ sasl_username \in e.shadowAddress)
    /\ sender \in e.memberOfGroup

filter_alias_member(e, sasl_username, sender) ==
    /\ e.objectClass = "mailAlias"
    /\ (e.mail = sender \/ sender \in e.shadowAddress)
    /\ sasl_username \in e.mailForwardingAddress

\* lines 252-259: the filter chosen by the two settings
query_filter(e, is_strict, allow_list_member, sasl_username, sender) ==
    IF is_strict /\ ~allow_list_member
    THEN filter_user_alias(e, sasl_username, sender)
    ELSE IF ~is_strict /\ allow_list_member
    THEN \/ filter_list_member(e, sasl_username, sender)
         \/ filter_alias_member(e, sasl_username, sender)
    ELSE \/ filter_user_alias(e, sasl_username, sender)
         \/ filter_list_member(e, sasl_username, sender)
         \/ filter_alias_member(e, sasl_username, sender)

\* what the backend part of restriction() hands on: accept is "return
\* DUNNO", check_mlmmj is _check_mlmmj_ml, queries are the queries issued
Checked(accept, check_mlmmj, queries) ==
    [accept |-> accept, check_mlmmj |-> check_mlmmj, queries |-> queries]

\* lines 270-277: the sender is an active list served by mlmmj
is_mlmmj_list(conn, sender) ==
    \E e \in conn.entries :
        /\ e.objectClass = "mailList"
        /\ e.mail = sender
        /\ "mlmmj" \in e.enabledService
        /\ e.accountStatus = "active"

\* lines 241-277, LDAP backend
check_ldap(conn, is_strict, allow_list_member, sasl_username, sender) ==
    IF \E e \in conn.entries :
           query_filter(e, is_strict, allow_list_member, sasl_username, sender)
    THEN Checked(TRUE, FALSE, <<"ldap account">>)
    ELSE Checked(FALSE, is_mlmmj_list(conn, sender), <<"ldap account", "ldap maillist">>)

\* SQL: forwarding LIKE user+%@domain
like_extension(forwarding, user, domain) ==
    /\ Len(forwarding) >= Len(user) + Len(domain) + 2
    /\ startswith(forwarding, user \o <<"+">>)
    /\ endswith(forwarding, <<"@">> \o domain)

\* lines 280-298: sender is a per-user alias address of the login
sql_user_alias(conn, sender, real_sasl_username, sasl_username_user, sasl_username_domain) ==
    \E r \in conn.forwardings :
        /\ r.address = sender
        /\ \/ r.forwarding = real_sasl_username
           \/ like_extension(r.forwarding, sasl_username_user, sasl_username_domain)
        /\ r.is_alias = 1

\* lines 300-313: sender_domain is an alias domain of the login's domain
sql_alias_domain(conn, sender_domain, sasl_username_domain) ==
    \E r \in conn.alias_domain :
        r.alias_domain = sender_domain /\ r.target_domain = sasl_username_domain

\* lines 327-343: the login is a member of the list or alias account
sql_list_member(conn, real_sender, real_sasl_username) ==
    \E r \in conn.forwardings :
        /\ r.address = real_sender
        /\ r.forwarding = real_sasl_username
        /\ r.is_list = 1
        /\ r.active = 1

\* lines 345-356: the sender is an active mlmmj list
sql_maillist(conn, real_sender) ==
    \E r \in conn.maillists : r.address = real_sender /\ r.active = 1

\* lines 327-356, if allow_list_member:
check_sql_list(conn, allow_list_member, real_sender, real_sasl_username, q) ==
    IF ~allow_list_member THEN Checked(FALSE, FALSE, q)
    ELSE IF sql_list_member(conn, real_sender, real_sasl_username)
    THEN Checked(TRUE, FALSE, q \o <<"sql list member">>)
    ELSE Checked(FALSE, sql_maillist(conn, real_sender),
                 q \o <<"sql list member", "sql maillists">>)

\* lines 279-356, SQL backends
check_sql(conn, is_strict, allow_list_member, sasl_username, sasl_username_user, sasl_username_domain, sender, sender_name, sender_domain) ==
    IF ~is_strict
    THEN check_sql_list(conn, allow_list_member, sender, sasl_username, <<>>)
    ELSE IF sql_user_alias(conn, sender, sasl_username, sasl_username_user, sasl_username_domain)
    THEN Checked(TRUE, FALSE, <<"sql user alias">>)
    ELSE IF sender_domain = sasl_username_domain
    THEN check_sql_list(conn, allow_list_member, sender, sasl_username, <<"sql user alias">>)
    ELSE LET q == <<"sql user alias", "sql alias domain">>
         IN  IF ~sql_alias_domain(conn, sender_domain, sasl_username_domain)
             THEN check_sql_list(conn, allow_list_member, sender, sasl_username, q)
             ELSE IF sender_name = sasl_username_user
             THEN Checked(TRUE, FALSE, q)
             ELSE check_sql_list(conn, allow_list_member,
                                 sender_name \o <<"@">> \o sasl_username_domain,
                                 sasl_username_user \o <<"@">> \o sasl_username_domain, q)

\* the mlmmjadmin request without the try/except around it
check_mlmmj_uncaught(st, ev, q) ==
    IF st.mlmmjadmin_api_auth_token # "" /\ st.mlmmjadmin_api_endpoint # ""
    THEN LET r == has_subscriber(ev)
             q2 == q \o <<"has_subscriber">>
         IN  IF r = "raise" THEN Raise(q2)
             ELSE IF r = "true" THEN Return(SMTP_ACTIONS.default, q2)
             ELSE Return(action_reject, q2)
    ELSE Return(action_reject, q)

\* lines 358-376: ask mlmmjadmin whether the login is subscribed; whatever
\* the try block raises is logged and the function goes on to its last line
check_mlmmj(st, ev, q) ==
    IF st.mlmmjadmin_api_auth_token # "" /\ st.mlmmjadmin_api_endpoint # ""
    THEN LET r == has_subscriber(ev)
             q2 == q \o <<"has_subscriber">>
         IN  IF r = "true" THEN Return(SMTP_ACTIONS.default, q2)
             ELSE Return(action_reject, q2)
    ELSE Return(action_reject, q)

\* authenticated() asking for a configured bypass before comparing the sender
\* with the login
authenticated_config_first(kw, st, ev, sasl_username, sasl_username_user, sender, sender_name, sender_domain) ==
    LET allowed_senders == st.ALLOWED_LOGIN_MISMATCH_SENDERS
        is_strict == st.ALLOWED_LOGIN_MISMATCH_STRICTLY
        allow_list_member == st.ALLOWED_LOGIN_MISMATCH_LIST_MEMBER
    IN  IF ~(allowed_senders # <<>> \/ is_strict \/ allow_list_member)
        THEN Return(action_reject, <<>>)
        ELSE IF sender = sasl_username
        THEN Return(SMTP_ACTIONS.default, <<>>)
        ELSE Return(action_reject, <<>>)

\* lines 201-376: the client is authenticated and names a sender
authenticated(kw, st, ev, sasl_username, sasl_username_user, sender, sender_name, sender_domain) ==
    LET sasl_username_domain == kw.sasl_username_domain
        allowed_senders == st.ALLOWED_LOGIN_MISMATCH_SENDERS
        is_strict == st.ALLOWED_LOGIN_MISMATCH_STRICTLY
        allow_list_member == st.ALLOWED_LOGIN_MISMATCH_LIST_MEMBER
        chk == IF ~(is_strict \/ allow_list_member)
               THEN Checked(FALSE, FALSE, <<>>)
               ELSE IF st.backend = "ldap"
               THEN check_ldap(kw.conn_vmail, is_strict, allow_list_member,
                               sasl_username, sender)
               ELSE check_sql(kw.conn_vmail, is_strict, allow_list_member,
                              sasl_username, sasl_username_user,
                              sasl_username_domain, sender, sender_name,
                              sender_domain)
    IN  IF sender = sasl_username
        THEN Return(SMTP_ACTIONS.default, <<>>)
        ELSE IF ~(allowed_senders # <<>> \/ is_strict \/ allow_list_member)
        THEN Return(action_reject, <<>>)
        ELSE IF /\ allowed_senders # <<>>
                /\ allowed_senders_bypass(allowed_senders, sasl_username,
                                          sasl_username_domain, sender_domain)
        THEN Return(SMTP_ACTIONS.default, <<>>)
        ELSE IF chk.accept THEN Return(SMTP_ACTIONS.default, chk.queries)
        ELSE IF chk.check_mlmmj THEN check_mlmmj(st, ev, chk.queries)
        ELSE Return(action_reject, chk.queries)

\* restriction(**kwargs), lines 123-376
login_mismatch_restriction(kw, st, ev) ==
    LET sasl_username == kw.sasl_username
        sasl_username_user == split_1(sasl_username, "@")[1]
        sender == kw.sender_without_ext
        parts == split_1(sender, "@")
        sender_name == IF sender # <<>> THEN parts[1] ELSE <<>>
        sender_domain == IF sender # <<>> THEN parts[2] ELSE <<>>
    IN  IF sender # <<>> /\ Len(parts) # 2
        THEN Raise(<<>>)                 \* line 133: nothing to unpack into
        ELSE IF sasl_username # <<>> /\ sender = <<>>
        THEN Return(SMTP_ACTIONS.default, <<>>)
        ELSE IF sasl_username = <<>>
        THEN unauthenticated(kw, st, ev, sender, sender_name, sender_domain)
        ELSE authenticated(kw, st, ev, sasl_username, sasl_username_user,
                           sender, sender_name, sender_domain)

\* One call of restriction().
LoginRestriction ==
    /\ rpc = "call"
    /\ settings # <<>>
    /\ result' = login_mismatch_restriction(kwargs, settings, env)
    /\ rpc' = "done"
    /\ UNCHANGED kwargs
    /\ UNCHANGED loginVars
    /\ UNCHANGED modelerVars

\* ---- the inputs ----

\* longest ALLOWED_FORGED_SENDERS and ALLOWED_LOGIN_MISMATCH_SENDERS tried
MaxForged == 1
MaxMismatch == 2

LoginUser == Addr("u", Dom_e)

\* senders: none, the login itself, its per-user alias, a list and an alias
\* account it belongs to, an mlmmj list, its address under the alias domain,
\* and an address of a domain not hosted here
LoginSenders ==
    {<<>>, LoginUser, Addr("v", Dom_e), Addr("l", Dom_e), Addr("s", Dom_e),
     Addr("m", Dom_e), Addr("u", Dom_a), Addr("x", Dom_o)}

\* logins: the user of the store, and one the store knows nothing about
SaslLogins == {LoginUser, Addr("w", Dom_e)}

ClientAddresses == {"127.0.0.1", "192.0.2.7"}

ForgedEntries == {LoginUser, Dom_e, <<"u", "@", "*">>}

MismatchEntries ==
    {LoginUser, Dom_e, <<"@">> \o Dom_e, <<"@", ".">>, Dom_o}

Settings(check_forged, forged, spf, senders, strictly, list_member, backend, token) ==
    [MYNETWORKS |-> <<"127.0.0.1">>,
     CHECK_FORGED_SENDER |-> check_forged,
     ALLOWED_FORGED_SENDERS |-> forged,
     CHECK_SPF_IF_LOGIN_MISMATCH |-> spf,
     ALLOWED_LOGIN_MISMATCH_SENDERS |-> senders,
     ALLOWED_LOGIN_MISMATCH_STRICTLY |-> strictly,
     ALLOWED_LOGIN_MISMATCH_LIST_MEMBER |-> list_member,
     backend |-> backend,
     mlmmjadmin_api_auth_token |-> token,
     mlmmjadmin_api_endpoint |-> "http://127.0.0.1:7790/api"]

Backends == {"ldap", "mysql"}

\* the settings an unauthenticated transaction can meet: those read only
\* after authentication keep the shipped values
ForgedSenderSettings ==
    {Settings(c, f, s, <<>>, TRUE, FALSE, b, "") :
        c \in BOOLEAN, f \in SeqsUpTo(ForgedEntries, MaxForged),
        s \in BOOLEAN, b \in Backends}

\* the settings an authenticated transaction can meet
MismatchSettings ==
    {Settings(TRUE, <<>>, FALSE, a, s, l, b, t) :
        a \in SeqsUpTo(MismatchEntries, MaxMismatch),
        s \in BOOLEAN, l \in BOOLEAN, b \in Backends, t \in {"", "token"}}

\* what mlmmjadmin can answer: no answer, a body that is not JSON, JSON
\* without the field, and the field false or true
Response(sent, is_json, json) == [sent |-> sent, is_json |-> is_json, json |-> json]

Responses ==
    {Response(FALSE, FALSE, <<>>), Response(TRUE, FALSE, <<>>),
     Response(TRUE, TRUE, <<>>),
     Response(TRUE, TRUE, "_success" :> FALSE),
     Response(TRUE, TRUE, "_success" :> TRUE)}

LoginKwargs(sasl_username, sender, recipient_domain, client_address, backend) ==
    [sasl_username |-> sasl_username,
     sasl_username_domain |-> DomainOf(sasl_username),
     sender_without_ext |-> sender,
     recipient_domain |-> recipient_domain,
     client_address |-> client_address,
     conn_vmail |-> IF backend = "ldap" THEN LoginLdap ELSE LoginSql]

InitUnauthenticated ==
    \E sender \in LoginSenders, rd \in {Dom_e, Dom_o}, ip \in ClientAddresses,
       st \in ForgedSenderSettings, spf \in BOOLEAN :
        /\ kwargs = LoginKwargs(<<>>, sender, rd, ip, st.backend)
        /\ settings = st
        /\ env = [spf_allowed |-> spf, response |-> Response(FALSE, FALSE, <<>>)]

InitAuthenticated ==
    \E sasl \in SaslLogins, sender \in LoginSenders, ip \in ClientAddresses,
       st \in MismatchSettings, r \in Responses :
        /\ kwargs = LoginKwargs(sasl, sender, Dom_o, ip, st.backend)
        /\ settings = st
        /\ env = [spf_allowed |-> FALSE, response |-> r]

InitLogin ==
    /\ InitUnauthenticated \/ InitAuthenticated
    /\ rpc = "call"
    /\ result = <<>>
    /\ ModelerIdle

NextLogin == LoginRestriction

SpecLogin == InitLogin /\ [][NextLogin]_vars

-----------------------------------------------------------------------------
(* Claims about Modeler.handle_data, checked under SpecModeler *)

\* The plugin's declared protocol states contain the transaction's.
AppliesToState(p) ==
    Upper(protocol_state) \in (IF p.hasState THEN p.SMTP_PROTOCOL_STATE ELSE {"RCPT"})

\* Plugin i applies, returns, and what it returns is not DEFAULT.
Decides(i) ==
    /\ AppliesToState(plugins[i])
    /\ plugins[i].restriction.kind = "return"
    /\ plugins[i].restriction.value[1] # "DUNNO"

\* The verdict of the first deciding plugin at or after position i, the
\* global default when there is none.
RECURSIVE ChainVerdict(_)
ChainVerdict(i) ==
    IF i > Len(plugins) THEN SMTP_ACTIONS.default
    ELSE IF Decides(i) THEN plugins[i].restriction.value
    ELSE ChainVerdict(i + 1)

InvokedSet == {invoked[n] : n \in 1..Len(invoked)}

\* C1: handle_data returns the verdict of the first applicable plugin, in
\* configured order, whose verdict is not DEFAULT, and no plugin after that
\* one is invoked; when no applicable plugin decides, it returns the default
\* action (with the reason "No enabled plugins" when the chain is empty).
C1_FirstNonDefaultWins ==
    /\ \A j \in InvokedSet : \A k \in 1..(j - 1) : ~Decides(k)
    /\ pc = "done" =>
          /\ plugins # <<>> => action = ChainVerdict(1)
          /\ plugins = <<>> => action[1] = "DUNNO"

\* C1 witness: a DEFAULT plugin ran, the next one decided, and an applicable
\* plugin after it was left alone.
C1_Witness ==
    /\ pc = "done"
    /\ \E i, k, j \in 1..Len(plugins) :
          /\ i < k /\ k < j
          /\ i \in InvokedSet /\ ~Decides(i)
          /\ Decides(k) /\ action = plugins[k].restriction.value
          /\ AppliesToState(plugins[j]) /\ j \notin InvokedSet

\* C2: every connection handle_data took is released when it returns, on
\* every return path.
C2_HandlesReleasedOnReturn ==
    pc = "done" =>
        /\ handles.conn_vmail # "open"
        /\ handles.conn_amavisd # "open"
        /\ handles.conn_iredapd # "open"

\* C3: exactly the plugins whose declared protocol states contain the
\* transaction's upper-cased state are invoked (a plugin declaring none
\* counts as RCPT-only), and a skipped plugin never ends the loop: every
\* applicable plugin before the loop position has been invoked, and the loop
\* ends only by running out or at an invoked plugin.
C3_OnlyApplicablePluginsInvoked ==
    /\ \A j \in InvokedSet : AppliesToState(plugins[j])
    /\ \A i \in 1..Len(plugins) :
          (i < idx /\ AppliesToState(plugins[i])) => i \in InvokedSet
    /\ (pc = "done" /\ plugins # <<>>) => (idx > Len(plugins) \/ idx \in InvokedSet)

\* C3 witness: a plugin declaring another state and a plugin declaring none
\* were both passed over, and a later plugin was still invoked.
C3_Witness ==
    /\ pc = "done"
    /\ Upper(protocol_state) = "END-OF-MESSAGE"
    /\ \E i, k, j \in 1..Len(plugins) :
          /\ i < j /\ k < j
          /\ plugins[i].hasState /\ plugins[i].SMTP_PROTOCOL_STATE = {"RCPT"}
          /\ ~plugins[k].hasState
          /\ i \notin InvokedSet /\ k \notin InvokedSet
          /\ j \in InvokedSet

\* C4: a plugin that fails does not end the request: the loop moves past
\* it, and the value returned is the verdict of the rest of the chain.
C4_PluginFailureFailsOpen ==
    \A i \in InvokedSet :
        plugins[i].restriction.kind = "raise" =>
            /\ idx > i
            /\ pc = "done" => action = ChainVerdict(i + 1)

\* C4 witness: a plugin failed and a later plugin's verdict was returned.
C4_Witness ==
    /\ pc = "done"
    /\ \E i, j \in InvokedSet :
          /\ i < j
          /\ plugins[i].restriction.kind = "raise"
          /\ Decides(j) /\ action = plugins[j].restriction.value

-----------------------------------------------------------------------------
(* Claims about ldap_maillist_access_policy.restriction, checked under     *)
(* SpecMaillist                                                            *)

Ldif == kwargs.recipient_ldif
IsList == Ldif.exists /\ In("mailList", Ldif.objectClass)
ActiveList == IsList /\ Ldif.accountStatus = <<"active">>
SaslIsRecipient == kwargs.sasl_username = kwargs.recipient_without_ext

\* the policy of the entry, lower-cased, the legacy name resolved
PolicyIs(name) ==
    LET raw == IF Ldif.accessPolicy = <<>> THEN "public" ELSE Ldif.accessPolicy[1]
        low == CASE raw = "PUBLIC" -> "public"
                 [] raw = "Domain" -> "domain"
                 [] raw = "allowedonly" -> "moderatorsonly"
                 [] OTHER -> raw
    IN  low = name

\* the sender is a moderator or owner of the list, or its allow-list names it
SenderPrivileged ==
    \/ In(kwargs.sender_without_ext, Ldif.listModerator)
    \/ In(kwargs.sender_without_ext, Ldif.listOwner)
    \/ explicitly_allowed(kwargs.sender_without_ext, kwargs.sender_domain,
                          Ldif.listAllowedUser) # <<>>

IsDefault(r) == r.kind = "return" /\ r.value[1] = "DUNNO"
IsRejectNotAuthorized(r) ==
    r.kind = "return" /\ r.value = SMTP_ACTIONS.reject_not_authorized

\* the allow-list reordered, and the allow-list with one of its entries
\* inserted once more
Reorderings(list) ==
    { [i \in 1..Len(list) |-> list[f[i]]] : f \in Permutations(1..Len(list)) }

WithDuplicate(list) ==
    { SubSeq(list, 1, k) \o <<list[j]>> \o SubSeq(list, k + 1, Len(list)) :
        k \in 0..Len(list), j \in 1..Len(list) }

\* C5: reordering listAllowedUser, or repeating one of its entries, does
\* not change the verdict of restriction().
C5_AllowListOrderAndDuplicatesIrrelevant ==
    rpc = "done" =>
        \A list \in Reorderings(Ldif.listAllowedUser) \cup WithDuplicate(Ldif.listAllowedUser) :
            LET other == restriction([kwargs EXCEPT !.recipient_ldif.listAllowedUser = list])
            IN  other.kind = result.kind /\ other.value = result.value

\* C6: a mailing list whose accountStatus is not exactly ['active'] is
\* rejected for every policy and every sender, moderators, owners, allowed
\* senders and mlmmj lists included, unless the authenticated identity is
\* the recipient.
C6_DisabledListRejected ==
    (rpc = "done" /\ IsList /\ Ldif.accountStatus # <<"active">> /\ ~SaslIsRecipient)
        => (result.kind = "return" /\ result.value = SMTP_ACTIONS.reject
            /\ result.value[1] = "REJECT")

\* C6 witness: a disabled mlmmj list with a non-public policy, the sender one
\* of its moderators, was rejected.
C6_Witness ==
    /\ rpc = "done"
    /\ IsList /\ Ldif.accountStatus = <<"disabled">> /\ ~SaslIsRecipient
    /\ In("mlmmj", Ldif.enabledService) /\ PolicyIs("moderatorsonly")
    /\ In(kwargs.sender_without_ext, Ldif.listModerator)
    /\ result.value[1] = "REJECT"

\* d, or a name that ends with d right after a dot
DotBoundaryMatch(name, d) ==
    \/ name = d
    \/ \E k \in 1..Len(name) :
          name[k] = "." /\ SubSeq(name, k + 1, Len(name)) = d

\* what policies domain and subdomain are to decide
DomainPolicyAccepts ==
    LET D == get_primary_and_alias_domains(kwargs.conn_vmail, kwargs.recipient_domain)
    IN  IF PolicyIs("domain")
        THEN \E i \in 1..Len(D) : D[i] = kwargs.sender_domain
        ELSE \E i \in 1..Len(D) : DotBoundaryMatch(kwargs.sender_domain, D[i])

C7_Case ==
    /\ rpc = "done"
    /\ ActiveList /\ ~SenderPrivileged
    /\ (PolicyIs("domain") \/ PolicyIs("subdomain"))

\* C7 as claimed: for an active list and an unprivileged sender, policy
\* domain yields DEFAULT iff the sender domain is one of the recipient's
\* primary/alias domains, policy subdomain iff it equals or is a dot-boundary
\* sub-domain of one; every other case yields REJECT-NOT-AUTHORIZED.
C7_Original ==
    C7_Case =>
        IF DomainPolicyAccepts THEN IsDefault(result) ELSE IsRejectNotAuthorized(result)

\* C7 as amended: the same, for a transaction whose authenticated identity
\* is not the list address itself.
C7_DomainAndSubdomainPolicies ==
    (C7_Case /\ ~SaslIsRecipient) =>
        IF DomainPolicyAccepts THEN IsDefault(result) ELSE IsRejectNotAuthorized(result)

\* C7 witness: under policy subdomain a sender of a sub-domain was let
\* through.
C7_Witness ==
    /\ C7_Case /\ ~SaslIsRecipient
    /\ PolicyIs("subdomain")
    /\ kwargs.sender_domain = Dom_s
    /\ IsDefault(result)

C9_PublicListNoRestriction ==
    (rpc = "done" /\ ActiveList
       /\ Ldif.accessPolicy \in {<<>>, <<"public">>, <<"PUBLIC">>})
        => (IsDefault(result) /\ result.queries = <<>>)

\* C9 witness: an unauthenticated outside sender wrote to an active list
\* whose policy is spelled PUBLIC.
C9_Witness ==
    /\ rpc = "done" /\ ActiveList
    /\ Ldif.accessPolicy = <<"PUBLIC">>
    /\ kwargs.sasl_username = <<>>
    /\ kwargs.sender_domain = Dom_ne
    /\ IsDefault(result)

\* the mail and shadowAddress values of the entries the membership query
\* returns
MemberAddresses ==
    LET qr == search_members(kwargs.conn_vmail, kwargs.recipient_without_ext,
                             kwargs.recipient_domain)
    IN  UNION { {bytes2str(e.mail[i]) : i \in 1..Len(e.mail)}
                \cup {bytes2str(e.shadowAddress[i]) : i \in 1..Len(e.shadowAddress)} :
                e \in qr }

C10_Case ==
    /\ rpc = "done"
    /\ ActiveList /\ PolicyIs("membersonly")
    /\ ~In("mlmmj", Ldif.enabledService)
    /\ ~SenderPrivileged
    /\ kwargs.conn_vmail.up

MemberAndModeratorAddresses ==
    LET qr == search_members_and_moderators(
                  kwargs.conn_vmail, kwargs.recipient_without_ext,
                  kwargs.recipient_domain, Ldif)
        Values(list) == {bytes2str(list[i]) : i \in 1..Len(list)}
    IN  UNION { Values(e.mail) \cup Values(e.shadowAddress)
                \cup Values(e.listAllowedUser) : e \in qr }

C17_Case ==
    /\ rpc = "done"
    /\ ActiveList /\ PolicyIs("membersandmoderatorsonly")
    /\ ~SenderPrivileged

\* what C17 says of the verdict
C17_Verdict ==
    IF ~kwargs.conn_vmail.up
    THEN IsDefault(result)
    ELSE IF kwargs.sender_without_ext \in MemberAndModeratorAddresses
    THEN IsDefault(result)
    ELSE IsRejectNotAuthorized(result)

\* C17 as claimed: for an active membersandmoderatorsonly list and an
\* unprivileged sender, a failing members/moderators query gives DEFAULT,
\* never REJECT; when the query succeeds the verdict is DEFAULT iff the
\* sender is among the collected mail/shadowAddress/listAllowedUser values,
\* and REJECT-NOT-AUTHORIZED otherwise.
C17_Original == C17_Case => C17_Verdict

\* C17 as amended: the same, for a transaction whose authenticated identity
\* is not the list address itself.
C17_MembersAndModeratorsPolicy == (C17_Case /\ ~SaslIsRecipient) => C17_Verdict

\* C17 witness: the query failed for a sender who is no member, and the
\* message was let through with the error noted.
C17_Witness ==
    /\ C17_Case /\ ~SaslIsRecipient
    /\ ~kwargs.conn_vmail.up
    /\ kwargs.sender_without_ext \notin MemberAndModeratorAddresses
    /\ IsDefault(result)
    /\ In("members_and_moderators", result.queries)

-----------------------------------------------------------------------------
(* Claims about reject_sender_login_mismatch.restriction, checked under    *)
(* SpecLogin                                                               *)

Authenticated == kwargs.sasl_username # <<>>

SenderIsLogin ==
    /\ kwargs.sender_without_ext # <<>>
    /\ kwargs.sender_without_ext = kwargs.sasl_username

\* no allow-list entry, no strict-alias check, no list-member check
NoBypassConfigured ==
    /\ settings.ALLOWED_LOGIN_MISMATCH_SENDERS = <<>>
    /\ ~settings.ALLOWED_LOGIN_MISMATCH_STRICTLY
    /\ ~settings.ALLOWED_LOGIN_MISMATCH_LIST_MEMBER

\* C11: whenever the extension-stripped sender is non-empty and equals the
\* authenticated identity, the verdict is DEFAULT, whatever the allow-list,
\* strict-alias and list-member settings are, and no backend query was made.
C11_SameSenderIsDefault ==
    (rpc = "done" /\ SenderIsLogin) =>
        result = Return(SMTP_ACTIONS.default, <<>>)

\* C11 witness: a login sending as itself was let through, without a query,
\* while the allow-list is filled and both backend checks are switched on.
C11_Witness ==
    /\ rpc = "done" /\ SenderIsLogin
    /\ settings.ALLOWED_LOGIN_MISMATCH_SENDERS # <<>>
    /\ settings.ALLOWED_LOGIN_MISMATCH_STRICTLY
    /\ settings.ALLOWED_LOGIN_MISMATCH_LIST_MEMBER
    /\ result = Return(SMTP_ACTIONS.default, <<>>)

Unauthenticated == kwargs.sasl_username = <<>>

TrustedClient == is_trusted_client(settings, kwargs.client_address)

\* sender, its domain or its local part followed by @* is listed in
\* ALLOWED_FORGED_SENDERS
ForgedSenderListed ==
    LET sender == kwargs.sender_without_ext
        parts == split_1(sender, "@")
        name == IF sender = <<>> THEN <<>> ELSE parts[1]
        domain == IF sender = <<>> THEN <<>> ELSE parts[2]
    IN  \/ In(sender, settings.ALLOWED_FORGED_SENDERS)
        \/ In(domain, settings.ALLOWED_FORGED_SENDERS)
        \/ In(name \o <<"@", "*">>, settings.ALLOWED_FORGED_SENDERS)

\* the sender domain is the recipient domain, or the store hosts it
SenderDomainLocal ==
    LET domain == DomainOf(kwargs.sender_without_ext)
    IN  domain = kwargs.recipient_domain \/ domain \in kwargs.conn_vmail.domains

\* C12: an unauthenticated transaction from a client in the trusted networks
\* gets DEFAULT for every sender, and it is decided before the forged-sender
\* toggle, the forged-sender allow-list, the local-domain lookup and the SPF
\* check: none of them was consulted.
C12_TrustedClientIsDefault ==
    (rpc = "done" /\ Unauthenticated /\ TrustedClient) =>
        result = Return(SMTP_ACTIONS.default, <<>>)

\* C12 witness: a trusted client was let through with a sender of a local
\* domain that is not listed, with forged-sender and SPF checking enabled.
C12_Witness ==
    /\ rpc = "done" /\ Unauthenticated /\ TrustedClient
    /\ settings.CHECK_FORGED_SENDER /\ settings.CHECK_SPF_IF_LOGIN_MISMATCH
    /\ kwargs.sender_without_ext # <<>>
    /\ ~ForgedSenderListed /\ SenderDomainLocal
    /\ ~env.spf_allowed
    /\ result = Return(SMTP_ACTIONS.default, <<>>)

\* an unauthenticated client outside the trusted networks, forged-sender
\* checking enabled, the sender not covered by ALLOWED_FORGED_SENDERS
C13_Case ==
    /\ rpc = "done"
    /\ Unauthenticated /\ ~TrustedClient
    /\ settings.CHECK_FORGED_SENDER
    /\ ~ForgedSenderListed

IsRejectForgedSender(r) ==
    r.kind = "return" /\ r.value = SMTP_ACTIONS.reject_forged_sender

\* C13: in that case, a sender domain hosted locally (equal to the recipient
\* domain, or reported local by the store) is answered with REJECT (forged
\* sender) when the SPF check is disabled, and a sender domain that is not
\* local is answered with DEFAULT.
C13_ForgedSenderRejected ==
    C13_Case =>
        /\ (SenderDomainLocal /\ ~settings.CHECK_SPF_IF_LOGIN_MISMATCH)
               => IsRejectForgedSender(result)
        /\ ~SenderDomainLocal => IsDefault(result)

\* C13 witness: a sender of a domain that only the store knows to be local
\* was rejected as forged.
C13_Witness ==
    /\ C13_Case
    /\ ~settings.CHECK_SPF_IF_LOGIN_MISMATCH
    /\ DomainOf(kwargs.sender_without_ext) # kwargs.recipient_domain
    /\ SenderDomainLocal
    /\ IsRejectForgedSender(result)
    /\ result.queries = <<"is_local_domain">>

\* an authenticated client naming a sender other than its login
Mismatch ==
    /\ Authenticated
    /\ kwargs.sender_without_ext # <<>>
    /\ kwargs.sender_without_ext # kwargs.sasl_username

\* C14: an authenticated transaction whose non-empty sender differs from the
\* login is answered with REJECT (sender/login mismatch) when no bypass is
\* configured (empty allow-list, strict-alias off, list-member off), and
\* neither the account store nor mlmmjadmin was asked.
C14_MismatchRejectedWithoutBypass ==
    (rpc = "done" /\ Mismatch /\ NoBypassConfigured) =>
        result = Return(SMTP_ACTIONS.reject_sender_login_mismatch, <<>>)

\* C14 witness: a login was refused its own per-user alias address, which a
\* strict-alias check would have found in the store.
C14_Witness ==
    /\ rpc = "done" /\ Mismatch /\ NoBypassConfigured
    /\ kwargs.sasl_username = LoginUser
    /\ kwargs.sender_without_ext = Addr("v", Dom_e)
    /\ result = Return(SMTP_ACTIONS.reject_sender_login_mismatch, <<>>)

AllowedSenders == settings.ALLOWED_LOGIN_MISMATCH_SENDERS

\* the login or its bare domain is listed
ListedForAnySender ==
    \/ In(kwargs.sasl_username, AllowedSenders)
    \/ In(kwargs.sasl_username_domain, AllowedSenders)

\* '@' followed by the login's domain, or the catch-all '@.', is listed
ListedForSameDomain ==
    \/ In(<<"@">> \o kwargs.sasl_username_domain, AllowedSenders)
    \/ In(<<"@", ".">>, AllowedSenders)

SenderInLoginDomain ==
    DomainOf(kwargs.sender_without_ext) = kwargs.sasl_username_domain

\* an entry of the allow-list grants DEFAULT
GrantedByAllowList ==
    \/ ListedForAnySender
    \/ ListedForSameDomain /\ SenderInLoginDomain

\* what the strict-alias and list-member checks make of the transaction:
\* the answer of restriction() with the allow-list left empty
WithoutAllowList ==
    login_mismatch_restriction(
        kwargs, [settings EXCEPT !.ALLOWED_LOGIN_MISMATCH_SENDERS = <<>>], env)

\* an authenticated mismatched sender meets a configured allow-list
C15_Case == rpc = "done" /\ Mismatch /\ AllowedSenders # <<>>

\* C15: in the allow-list check for an authenticated mismatched sender, an
\* entry equal to the login or to its bare domain gives DEFAULT for any
\* sender; an '@domain' entry for the login's domain, or '@.', gives DEFAULT
\* only when the sender domain is the login's domain; and when no entry
\* grants DEFAULT the transaction is not rejected there: the strict-alias
\* and list-member checks decide it, as if the list were empty.
C15_AllowListScopes ==
    C15_Case =>
        /\ GrantedByAllowList => result = Return(SMTP_ACTIONS.default, <<>>)
        /\ ~GrantedByAllowList => result = WithoutAllowList
        /\ (/\ ~GrantedByAllowList
            /\ \/ settings.ALLOWED_LOGIN_MISMATCH_STRICTLY
               \/ settings.ALLOWED_LOGIN_MISMATCH_LIST_MEMBER)
               => result.queries # <<>>

\* C15 witness: the catch-all '@.' did not cover a sender of another domain,
\* and the checks that followed let it through.
C15_Witness ==
    /\ C15_Case
    /\ ListedForSameDomain /\ ~ListedForAnySender /\ ~SenderInLoginDomain
    /\ In(<<"@", ".">>, AllowedSenders)
    /\ IsDefault(result)
    /\ result.queries # <<>>

\* restriction() sent the has_subscriber request to mlmmjadmin
MembershipCallMade == rpc = "done" /\ In("has_subscriber", result.queries)

\* the request was answered with JSON whose _success field is true
SuccessIsTrue ==
    /\ env.response.sent
    /\ env.response.is_json
    /\ "_success" \in DOMAIN env.response.json
    /\ env.response.json["_success"]

IsRejectMismatch(r) ==
    r.kind = "return" /\ r.value = SMTP_ACTIONS.reject_sender_login_mismatch

\* C16: when the membership request to mlmmjadmin is made and fails in any
\* way (no answer, a body that is not JSON, a missing or false success
\* field), no error leaves restriction(): the login counts as no subscriber
\* and the answer is REJECT (sender/login mismatch); only an answer whose
\* success field is true gives DEFAULT.
C16_MembershipCallFailsClosed ==
    MembershipCallMade =>
        /\ result.kind = "return"
        /\ IF SuccessIsTrue THEN IsDefault(result) ELSE IsRejectMismatch(result)

\* C16 witness: mlmmjadmin answered with JSON that has no success field, and
\* the sender was rejected.
C16_Witness ==
    /\ MembershipCallMade
    /\ env.response.sent /\ env.response.is_json
    /\ "_success" \notin DOMAIN env.response.json
    /\ IsRejectMismatch(result)

=============================================================================
